---- MODULE Spec2Model ----
(***************************************************************************)
(* A model of the callback trampoline, the failure capsule pool and the    *)
(* auxiliary reference stack of src/state/util.rs, and of the method       *)
(* closures built by src/userdata/registry.rs.                             *)
(***************************************************************************)
EXTENDS Integers, Sequences, FiniteSets, TLC

VARIABLES
    extra,      \* ExtraData: ref_thread, ref_free, ref_stack_size, ref_stack_top,
                \* wrapped_failure_pool, wrapped_failure_top, yielded_values
    cur_state,  \* RawLua.state: the execution context the handle calls current
    frames,     \* trampoline invocations in progress, innermost last
    last,       \* how the most recent trampoline invocation ended
    run,        \* history: the current run of reserve/release cycles made one after another
    allocs,     \* history: the slot allocations made since construction, while nothing else ran
    rtype,      \* UserDataRegistry.type: Shared(type id) or Unique(address)
    raw,        \* RawUserDataRegistry: the lists of registered entries
    borrow,     \* per userdata, its storage's borrow state: 0 free, n > 0 shared, -1 exclusive
    cells,      \* the boxed mut closures whose RefCell is mutably borrowed
    val,        \* per userdata, the host object's state (a counter)
    calls,      \* user closures that are running, innermost last
    ret,        \* what the most recent step of a boxed closure did
    seq,        \* history: the calls of exclusive methods made one after another on
                \* one object since construction, and what they returned
    built       \* history: the most recent addition to the registry and the lists before it

tvars == <<extra, cur_state, frames, last, run, allocs>>
rvars == <<rtype, raw, borrow, cells, val, calls, ret, seq, built>>
vars == <<extra, cur_state, frames, last, run, allocs,
          rtype, raw, borrow, cells, val, calls, ret, seq, built>>

----------------------------------------------------------------------------
(* Bounds *)

\* The foreign runtime refuses to grow the auxiliary stack beyond this many slots.
MaxStack == 2
\* The same limit in the behaviours that follow the growth of the auxiliary stack.
MaxGrown == 3
\* Trampoline invocations nested inside one another.
MaxDepth == 2
\* The auxiliary stack is constructed with a capacity of 1..MaxInitSize slots.
MaxInitSize == 1
\* A run of sequential reserve/release cycles is followed for this many cycles.
MaxRun == 3

Threads == {"main", "co"}
Errors == {"e1", "e2"}
Payloads == {"p1", "p2"}
NArgs == {0, 1}

----------------------------------------------------------------------------
(* Values on a foreign stack *)

V(t, id) == [t |-> t, id |-> id]
Nil == V("nil", 0)
Arg == V("arg", 0)
Res == V("res", 0)
Ref == V("val", 0)          \* a long-lived value kept by a reference
Cap(id) == V("cap", id)     \* a failure capsule (WrappedFailure userdata)
Yv(id) == V("yv", id)       \* a buffered yielded value
BadYv == V("badyv", 0)      \* a yielded value whose encoding fails

CapIds == 1..(MaxGrown + MaxDepth + 1)

Range(s) == {s[i] : i \in 1..Len(s)}
Rep(v, n) == [i \in 1..n |-> v]
Front(s) == SubSeq(s, 1, Len(s) - 1)
Top(s) == s[Len(s)]

----------------------------------------------------------------------------
(* The foreign runtime's stack primitives, on a stack given as a sequence *)

lua_settop(s, idx) ==
    LET n == IF idx >= 0 THEN idx ELSE Len(s) + idx + 1
    IN  [i \in 1..n |-> IF i <= Len(s) THEN s[i] ELSE Nil]

lua_pop(s, n) == lua_settop(s, -n - 1)

lua_insert(s, idx) ==
    [i \in 1..Len(s) |-> IF i < idx THEN s[i] ELSE IF i = idx THEN Top(s) ELSE s[i - 1]]

lua_rotate(s, idx, n) ==
    LET m == Len(s) - idx + 1
    IN  [i \in 1..Len(s) |->
            IF i < idx THEN s[i] ELSE s[idx + ((i - idx - n) % m)]]

lua_replace(s, idx) ==
    [i \in 1..(Len(s) - 1) |-> IF i = idx THEN Top(s) ELSE s[i]]

lua_xpush(from, to, idx) == Append(to, from[idx])

\* moves the n top values of one stack to another (distinct) stack
lua_xmove(from, to, n) ==
    [from |-> SubSeq(from, 1, Len(from) - n),
     to   |-> to \o SubSeq(from, Len(from) - n + 1, Len(from))]

----------------------------------------------------------------------------
(* Auxiliary reference stack *)

\* lua_checkstack(ref_thread, inc) succeeds exactly when inc <= avail
RECURSIVE Halve(_, _)
Halve(inc, avail) ==
    IF inc > 0 /\ inc > avail THEN Halve(inc \div 2, avail) ELSE inc

\* ref_stack_pop with the capacity left as it was when the stack grows
ref_stack_pop_no_grow(ex, avail) ==
    IF ex.ref_free # <<>>
    THEN LET free == Top(ex.ref_free)
         IN  [extra |-> [ex EXCEPT !.ref_free = Front(ex.ref_free),
                                   !.ref_thread = lua_replace(ex.ref_thread, free)],
              index |-> free, panic |-> FALSE, used |-> 0]
    ELSE IF ex.ref_stack_top >= ex.ref_stack_size /\ Halve(ex.ref_stack_size, avail) = 0
    THEN [extra |-> [ex EXCEPT !.ref_thread = lua_pop(ex.ref_thread, 1)],
          index |-> 0, panic |-> TRUE, used |-> ex.ref_stack_top]
    ELSE [extra |-> [ex EXCEPT !.ref_stack_top = ex.ref_stack_top + 1],
          index |-> ex.ref_stack_top + 1, panic |-> FALSE, used |-> 0]

\* ref_stack_pop that panics with the transient entry still on the auxiliary context
ref_stack_pop_keeps_transient(ex, avail) ==
    IF ex.ref_free # <<>>
    THEN LET free == Top(ex.ref_free)
         IN  [extra |-> [ex EXCEPT !.ref_free = Front(ex.ref_free),
                                   !.ref_thread = lua_replace(ex.ref_thread, free)],
              index |-> free, panic |-> FALSE, used |-> 0]
    ELSE IF ex.ref_stack_top >= ex.ref_stack_size
    THEN LET inc == Halve(ex.ref_stack_size, avail)
         IN  IF inc = 0
             THEN [extra |-> ex, index |-> 0, panic |-> TRUE, used |-> ex.ref_stack_top]
             ELSE [extra |-> [ex EXCEPT !.ref_stack_size = ex.ref_stack_size + inc,
                                        !.ref_stack_top = ex.ref_stack_top + 1],
                   index |-> ex.ref_stack_top + 1, panic |-> FALSE, used |-> 0]
    ELSE [extra |-> [ex EXCEPT !.ref_stack_top = ex.ref_stack_top + 1],
          index |-> ex.ref_stack_top + 1, panic |-> FALSE, used |-> 0]

\* The value to keep is on top of ref_thread when ref_stack_pop is called.
ref_stack_pop(ex, avail) ==
    IF ex.ref_free # <<>>
    THEN LET free == Top(ex.ref_free)
         IN  [extra |-> [ex EXCEPT !.ref_free = Front(ex.ref_free),
                                   !.ref_thread = lua_replace(ex.ref_thread, free)],
              index |-> free, panic |-> FALSE, used |-> 0]
    ELSE IF ex.ref_stack_top >= ex.ref_stack_size
    THEN LET inc == Halve(ex.ref_stack_size, avail)
         IN  IF inc = 0
             THEN [extra |-> [ex EXCEPT !.ref_thread = lua_pop(ex.ref_thread, 1)],
                   index |-> 0, panic |-> TRUE, used |-> ex.ref_stack_top]
             ELSE [extra |-> [ex EXCEPT !.ref_stack_size = ex.ref_stack_size + inc,
                                        !.ref_stack_top = ex.ref_stack_top + 1],
                   index |-> ex.ref_stack_top + 1, panic |-> FALSE, used |-> 0]
    ELSE [extra |-> [ex EXCEPT !.ref_stack_top = ex.ref_stack_top + 1],
          index |-> ex.ref_stack_top + 1, panic |-> FALSE, used |-> 0]

\* Slots of the auxiliary stack that hold something: ref_stack_top minus the free-list
SlotsInUse(ex) == ex.ref_stack_top - Len(ex.ref_free)

\* What the runtime can still add to the auxiliary stack
Avail(ex) == 0..(MaxStack - ex.ref_stack_size)
AvailGrown(ex) == 0..(MaxGrown - ex.ref_stack_size)

----------------------------------------------------------------------------
(* Failure capsule pool: PreallocatedFailure *)

LiveCaps ==
    {v.id : v \in {w \in Range(extra.ref_thread) : w.t = "cap"}}
    \cup UNION {{v.id : v \in {w \in Range(frames[i].base) : w.t = "cap"}}
                : i \in 1..Len(frames)}
    \cup {frames[i].ud : i \in 1..Len(frames)}

FreshCap == CHOOSE c \in CapIds \ LiveCaps : \A d \in CapIds \ LiveCaps : c <= d

new_userdata(stack) == Append(stack, Cap(FreshCap))

\* reserve that allocates a capsule whatever the idle count
reserve_always_new(stack, ex) ==
    [tok |-> "New", ud |-> FreshCap,
     stack |-> lua_insert(new_userdata(stack), 1), extra |-> ex]

\* reserve that takes an idle capsule without counting it taken
reserve_keeps_idle(stack, ex) ==
    IF ex.wrapped_failure_top > 0
    THEN [tok |-> "Reserved", ud |-> 0, stack |-> stack, extra |-> ex]
    ELSE [tok |-> "New", ud |-> FreshCap,
          stack |-> lua_insert(new_userdata(stack), 1), extra |-> ex]

reserve(stack, ex) ==
    IF ex.wrapped_failure_top > 0
    THEN [tok |-> "Reserved", ud |-> 0, stack |-> stack,
          extra |-> [ex EXCEPT !.wrapped_failure_top = ex.wrapped_failure_top - 1]]
    ELSE [tok |-> "New", ud |-> FreshCap,
          stack |-> lua_insert(new_userdata(stack), 1), extra |-> ex]

\* use that leaves the frame of a New token as the closure left it
use_keeps_frame(tok, ud, stack, ex) ==
    IF tok = "New"
    THEN [ptr |-> ud, stack |-> stack, extra |-> ex, panic |-> FALSE]
    ELSE IF ex.wrapped_failure_pool = <<>>
    THEN [ptr |-> 0, stack |-> stack, extra |-> ex, panic |-> TRUE]
    ELSE LET index == Top(ex.wrapped_failure_pool)
             st    == lua_xpush(ex.ref_thread, lua_settop(stack, 0), index)
             rt    == lua_replace(Append(ex.ref_thread, Nil), index)
         IN  [ptr |-> IF Top(st).t = "cap" THEN Top(st).id ELSE 0,
              stack |-> st,
              extra |-> [ex EXCEPT !.wrapped_failure_pool = Front(ex.wrapped_failure_pool),
                                   !.ref_thread = rt,
                                   !.ref_free = Append(ex.ref_free, index)],
              panic |-> FALSE]

\* use that frees the slot of the capsule it takes but leaves its index in the pool list
use_keeps_listed(tok, ud, stack, ex) ==
    IF tok = "New"
    THEN [ptr |-> ud, stack |-> lua_settop(stack, 1), extra |-> ex, panic |-> FALSE]
    ELSE IF ex.wrapped_failure_pool = <<>>
    THEN [ptr |-> 0, stack |-> stack, extra |-> ex, panic |-> TRUE]
    ELSE LET index == Top(ex.wrapped_failure_pool)
             st    == lua_xpush(ex.ref_thread, lua_settop(stack, 0), index)
             rt    == lua_replace(Append(ex.ref_thread, Nil), index)
         IN  [ptr |-> IF Top(st).t = "cap" THEN Top(st).id ELSE 0,
              stack |-> st,
              extra |-> [ex EXCEPT !.ref_thread = rt,
                                   !.ref_free = Append(ex.ref_free, index)],
              panic |-> FALSE]

\* use that leaves the capsule in its auxiliary slot and the slot taken
use_keeps_slot(tok, ud, stack, ex) ==
    IF tok = "New"
    THEN [ptr |-> ud, stack |-> lua_settop(stack, 1), extra |-> ex, panic |-> FALSE]
    ELSE IF ex.wrapped_failure_pool = <<>>
    THEN [ptr |-> 0, stack |-> stack, extra |-> ex, panic |-> TRUE]
    ELSE LET index == Top(ex.wrapped_failure_pool)
             st    == lua_xpush(ex.ref_thread, lua_settop(stack, 0), index)
         IN  [ptr |-> IF Top(st).t = "cap" THEN Top(st).id ELSE 0,
              stack |-> st,
              extra |-> [ex EXCEPT !.wrapped_failure_pool = Front(ex.wrapped_failure_pool)],
              panic |-> FALSE]

\* ptr is the capsule the returned pointer designates, 0 when it designates none
use(tok, ud, stack, ex) ==
    IF tok = "New"
    THEN [ptr |-> ud, stack |-> lua_settop(stack, 1), extra |-> ex, panic |-> FALSE]
    ELSE IF ex.wrapped_failure_pool = <<>>
    THEN [ptr |-> 0, stack |-> stack, extra |-> ex, panic |-> TRUE]
    ELSE LET index == Top(ex.wrapped_failure_pool)
             st    == lua_xpush(ex.ref_thread, lua_settop(stack, 0), index)
             rt    == lua_replace(Append(ex.ref_thread, Nil), index)
         IN  [ptr |-> IF Top(st).t = "cap" THEN Top(st).id ELSE 0,
              stack |-> st,
              extra |-> [ex EXCEPT !.wrapped_failure_pool = Front(ex.wrapped_failure_pool),
                                   !.ref_thread = rt,
                                   !.ref_free = Append(ex.ref_free, index)],
              panic |-> FALSE]

\* release that parks the capsule of a New token without counting it idle
release_forgets_idle(tok, stack, ex, avail) ==
    IF tok = "New"
    THEN LET mv == lua_xmove(lua_rotate(stack, 1, -1), ex.ref_thread, 1)
             p  == ref_stack_pop([ex EXCEPT !.ref_thread = mv.to], avail)
         IN  IF p.panic
             THEN [stack |-> mv.from, extra |-> p.extra, panic |-> TRUE]
             ELSE [stack |-> mv.from,
                   extra |-> [p.extra EXCEPT
                       !.wrapped_failure_pool = Append(p.extra.wrapped_failure_pool, p.index)],
                   panic |-> FALSE]
    ELSE [stack |-> stack,
          extra |-> [ex EXCEPT !.wrapped_failure_top = ex.wrapped_failure_top + 1],
          panic |-> FALSE]

release(tok, stack, ex, avail) ==
    IF tok = "New"
    THEN LET mv == lua_xmove(lua_rotate(stack, 1, -1), ex.ref_thread, 1)
             p  == ref_stack_pop([ex EXCEPT !.ref_thread = mv.to], avail)
         IN  IF p.panic
             THEN [stack |-> mv.from, extra |-> p.extra, panic |-> TRUE]
             ELSE [stack |-> mv.from,
                   extra |-> [p.extra EXCEPT
                       !.wrapped_failure_pool = Append(p.extra.wrapped_failure_pool, p.index),
                       !.wrapped_failure_top = p.extra.wrapped_failure_top + 1],
                   panic |-> FALSE]
    ELSE [stack |-> stack,
          extra |-> [ex EXCEPT !.wrapped_failure_top = ex.wrapped_failure_top + 1],
          panic |-> FALSE]

----------------------------------------------------------------------------
(* What a capsule holds: WrappedFailure *)

WF(tag, kind, payload, tb) ==
    [tag |-> tag, kind |-> kind, val |-> payload, traceback |-> tb]
NoFailure == WF("None", "-", "-", "-")
\* what is raised when the written pointer is not the capsule on top of the frame
Garbage == WF("Garbage", "-", "-", "-")
WrappedError(e) == WF("Error", "plain", e, "-")
WrappedCallbackError(tb, cause) == WF("Error", "CallbackError", cause, tb)
WrappedExternal(msg) == WF("Error", "external", msg, "-")
WrappedPanic(p) == WF("Panic", "-", p, "-")

NoTracebackSpace == "<not enough stack space for traceback>"

\* the traceback with a refusal of lua_checkstack taken for an empty traceback
Traceback_empty(room) == IF room THEN "stack traceback" ELSE ""

\* the traceback captured when lua_checkstack(state, LUA_TRACEBACK_STACK) answers room
Traceback(room) == IF room THEN "stack traceback" ELSE NoTracebackSpace

----------------------------------------------------------------------------
(* History *)

\* the pool and the free-list as use found them, and what the slot it takes held
NoPre == [pool |-> <<>>, free |-> <<>>, top |-> 0, slot |-> Nil]

PreUse(tok, ex) ==
    [pool |-> ex.wrapped_failure_pool, free |-> ex.ref_free,
     top |-> ex.wrapped_failure_top,
     slot |-> IF tok = "Reserved" /\ ex.wrapped_failure_pool # <<>>
              THEN ex.ref_thread[Top(ex.wrapped_failure_pool)] ELSE Nil]

\* the most recent call of ref_stack_pop that had to grow the auxiliary stack: the
\* stack as it found it, what the runtime could still add, and what it answered
NoPop == [tried |-> FALSE, top |-> 0, size |-> 0, thread |-> <<>>, avail |-> 0,
          index |-> 0, panic |-> FALSE, used |-> 0]

PopOf(ex, avail, p) ==
    IF ex.ref_free = <<>> /\ ex.ref_stack_top >= ex.ref_stack_size
    THEN [tried |-> TRUE, top |-> ex.ref_stack_top, size |-> ex.ref_stack_size,
          thread |-> ex.ref_thread, avail |-> avail,
          index |-> p.index, panic |-> p.panic, used |-> p.used]
    ELSE NoPop

\* the call of ref_stack_pop that release makes for a New token
PopOfRelease(tok, stack, ex, avail) ==
    IF tok = "New"
    THEN LET mv == lua_xmove(lua_rotate(stack, 1, -1), ex.ref_thread, 1)
             at == [ex EXCEPT !.ref_thread = mv.to]
         IN  PopOf(at, avail, ref_stack_pop(at, avail))
    ELSE NoPop

NoLast ==
    [exit |-> "none", variant |-> "-", tok |-> "-", wrap |-> FALSE, outcome |-> "-",
     val |-> "-", uses |-> 0, releases |-> 0, raised |-> NoFailure, stack |-> <<>>,
     nyield |-> 0, state |-> "-", saved |-> "-", room |-> TRUE, pre |-> NoPre,
     yielded |-> <<>>, pop |-> NoPop]

\* room is FALSE when lua_checkstack was asked for the traceback and refused
Ended(f, wrap_error, exit, outcome, payload, uses, releases, raised, stack, nyield, room) ==
    [exit |-> exit, variant |-> f.variant, tok |-> f.tok, wrap |-> wrap_error,
     outcome |-> outcome, val |-> payload, uses |-> uses, releases |-> releases,
     raised |-> raised, stack |-> stack, nyield |-> nyield,
     state |-> f.state, saved |-> f.saved, room |-> room, pre |-> NoPre,
     yielded |-> <<>>, pop |-> NoPop]

RunDead == [live |-> FALSE, n |-> 0, idle0 |-> 0, used0 |-> 0, parked |-> FALSE]

RunOnReserve ==
    IF frames # <<>> THEN RunDead
    ELSE IF run.live /\ run.n < MaxRun THEN run
    ELSE [live |-> TRUE, n |-> 0, idle0 |-> extra.wrapped_failure_top,
          used0 |-> SlotsInUse(extra), parked |-> FALSE]

RunOnRelease(panic) ==
    IF Len(frames) = 1 /\ run.live
    THEN [run EXCEPT !.n = @ + 1, !.parked = @ \/ ~panic]
    ELSE RunDead

AllocsDead == [live |-> FALSE, idx |-> <<>>, cap0 |-> 0, full |-> FALSE, failed |-> FALSE]

AllocsOnPop(p, avail) ==
    IF allocs.live /\ ~allocs.failed /\ Len(allocs.idx) <= allocs.cap0
    THEN [allocs EXCEPT
            !.idx = IF p.panic THEN @ ELSE Append(@, p.index),
            !.failed = p.panic,
            !.full = @ /\ (extra.ref_stack_top < extra.ref_stack_size
                           \/ avail >= extra.ref_stack_size)]
    ELSE AllocsDead

----------------------------------------------------------------------------
(* References made and dropped by host code *)

\* RawLua::pop_ref: the value is moved onto ref_thread, ref_stack_pop gives its slot
PopRef(avail) ==
    LET at == [extra EXCEPT !.ref_thread = Append(@, Ref)]
        p  == ref_stack_pop(at, avail)
    IN  /\ extra' = p.extra
        /\ allocs' = AllocsOnPop(p, avail)
        /\ run' = RunDead
        /\ last' = [NoLast EXCEPT !.pop = PopOf(at, avail, p)]
        /\ UNCHANGED <<cur_state, frames>>
        /\ UNCHANGED rvars

\* free_slot(index): nil the slot and put the index on the free-list
DropRef(index) ==
    /\ index \in 1..Len(extra.ref_thread)
    /\ extra.ref_thread[index] = Ref
    /\ extra' = [extra EXCEPT !.ref_thread = lua_replace(Append(@, Nil), index),
                              !.ref_free = Append(@, index)]
    /\ allocs' = AllocsDead
    /\ run' = RunDead
    /\ last' = NoLast
    /\ UNCHANGED <<cur_state, frames>>
    /\ UNCHANGED rvars

----------------------------------------------------------------------------
(* Callback trampoline *)

YieldBuffers == {<<Yv(1), Yv(2)>>, <<BadYv>>}

\* the host closure buffers values to yield
SetYieldedValues(values) ==
    /\ frames # <<>>
    /\ extra.yielded_values # values
    /\ extra' = [extra EXCEPT !.yielded_values = values]
    /\ allocs' = AllocsDead
    /\ last' = NoLast
    /\ UNCHANGED <<cur_state, frames, run>>
    /\ UNCHANGED rvars

\* a guard whose drop leaves the context it installed
StateGuard_drop_forgets(f) == f.state

\* StateGuard::new and StateGuard::drop
StateGuard_new(state) == [installed |-> state, saved |-> cur_state]
StateGuard_drop(f) == f.saved

\* both trampolines up to the call of the host closure f; base is the part of the
\* frame below the nargs arguments, which the closure consumes
Enter(variant, state, nargs) ==
    /\ Len(frames) < MaxDepth
    /\ LET r == reserve(Rep(Arg, nargs), extra)
           g == StateGuard_new(state)
       IN  /\ extra' = r.extra
           /\ cur_state' = g.installed
           /\ frames' = Append(frames,
                  [variant |-> variant, tok |-> r.tok, ud |-> r.ud,
                   state |-> state, saved |-> g.saved,
                   base |-> SubSeq(r.stack, 1, Len(r.stack) - nargs)])
    /\ run' = RunOnReserve
    /\ allocs' = AllocsDead
    /\ last' = NoLast
    /\ UNCHANGED rvars

callback_error_ext_call(state, nargs) ==
    Enter("ext", state, nargs)

callback_error_ext_yieldable_call(state, nargs) ==
    Enter("yieldable", state, nargs)

\* the frame's stack when the host closure ends having left k values above what
\* reserve put below its arguments
ClosureStack(f, k) == f.base \o Rep(Res, k)

\* what lua_error raises: the value on top of the frame
Raised(u, content) ==
    IF u.stack # <<>> /\ u.ptr # 0 /\ Top(u.stack) = Cap(u.ptr) THEN content ELSE Garbage

\* the invocation ends: its frame is popped, the guard has restored the context
Finish(f, ex, ended, newrun) ==
    /\ frames' = Front(frames)
    /\ cur_state' = StateGuard_drop(f)
    /\ extra' = ex
    /\ last' = ended
    /\ run' = newrun
    /\ allocs' = AllocsDead
    /\ UNCHANGED rvars

\* Ok(Ok(r)) without a yield: release the capsule and return
ReturnOk(f, k, ex, avail) ==
    LET rl == release(f.tok, ClosureStack(f, k), ex, avail)
    IN  Finish(f, rl.extra,
               [Ended(f, FALSE, IF rl.panic THEN "panic" ELSE "return", "ok", "-", 0, 1,
                      NoFailure, rl.stack, 0, TRUE)
                   EXCEPT !.pop = PopOfRelease(f.tok, ClosureStack(f, k), ex, avail)],
               RunOnRelease(rl.panic))

\* a failure path: use the capsule, write content into it, raise
RaiseFailure(f, wrap_error, k, ex, outcome, payload, content, room) ==
    LET u == use(f.tok, f.ud, ClosureStack(f, k), ex)
    IN  Finish(f, u.extra,
               IF u.panic
               THEN Ended(f, wrap_error, "panic", outcome, payload, 1, 0, NoFailure,
                          u.stack, 0, TRUE)
               ELSE [Ended(f, wrap_error, "raise", outcome, payload, 1, 0,
                           Raised(u, content), u.stack, 0, room)
                        EXCEPT !.pre = PreUse(f.tok, ex)],
               RunDead)

\* the error path with the test of wrap_error inverted
RaiseError_inverted(f, wrap_error, k, err, room) ==
    RaiseFailure(f, wrap_error, k, extra, "err", err,
                 IF wrap_error THEN WrappedError(err)
                 ELSE WrappedCallbackError(Traceback(room), err),
                 wrap_error \/ room)

\* Ok(Err(err))
RaiseError(f, wrap_error, k, err, room) ==
    RaiseFailure(f, wrap_error, k, extra, "err", err,
                 IF ~wrap_error THEN WrappedError(err)
                 ELSE WrappedCallbackError(Traceback(room), err),
                 wrap_error => room)

\* Err(p)
RaisePanic(f, k, p) ==
    RaiseFailure(f, FALSE, k, extra, "panic", p, WrappedPanic(p), TRUE)

callback_error_ext_ok(k, avail) ==
    /\ frames # <<>>
    /\ Top(frames).variant = "ext"
    /\ ReturnOk(Top(frames), k, [extra EXCEPT !.yielded_values = <<>>], avail)

callback_error_ext_err(wrap_error, k, err, room) ==
    /\ frames # <<>>
    /\ Top(frames).variant = "ext"
    /\ RaiseError(Top(frames), wrap_error, k, err, room)

callback_error_ext_panic(k, p) ==
    /\ frames # <<>>
    /\ Top(frames).variant = "ext"
    /\ RaisePanic(Top(frames), k, p)

\* push_into_stack_multi fails when a value cannot be encoded
Encodable(values) == BadYv \notin Range(values)

\* the yield of buffered values: they are encoded onto the handle's current context
\* (raw, the one the guard restored) and moved to the calling context (state)
YieldStack(f, k, values) ==
    LET rawstate == StateGuard_drop(f)
        st0 == ClosureStack(f, k)
    IN  IF rawstate = f.state
        THEN \* one stack: the values are pushed, the pop clears them, the move is a no-op
             lua_pop(st0 \o values, -1)
        ELSE lua_xmove(values, lua_pop(st0, -1), Len(values)).to

callback_error_ext_yieldable_ok(k, avail) ==
    /\ frames # <<>>
    /\ Top(frames).variant = "yieldable"
    /\ LET f == Top(frames)
           values == extra.yielded_values
           ex == [extra EXCEPT !.yielded_values = <<>>]
       IN  IF values # <<>>
           THEN IF Encodable(values)
                THEN Finish(f, ex,
                            [Ended(f, FALSE, "yield", "ok", "-", 0, 0, NoFailure,
                                   YieldStack(f, k, values), Len(values), TRUE)
                                EXCEPT !.yielded = values],
                            RunDead)
                ELSE RaiseFailure(f, FALSE, k, ex, "ok", "-",
                                  WrappedExternal("conversion error"), TRUE)
           ELSE ReturnOk(f, k, ex, avail)

callback_error_ext_yieldable_err(wrap_error, k, err, room) ==
    /\ frames # <<>>
    /\ Top(frames).variant = "yieldable"
    /\ RaiseError(Top(frames), wrap_error, k, err, room)

callback_error_ext_yieldable_panic(k, p) ==
    /\ frames # <<>>
    /\ Top(frames).variant = "yieldable"
    /\ RaisePanic(Top(frames), k, p)

----------------------------------------------------------------------------
(* Typed method registry: src/userdata/registry.rs *)

\* Method closures nested inside one another.
MaxCallDepth == 2
\* Entries registered in one registry.
MaxEntries == 2
\* The counter kept by a host object is followed up to this value.
MaxVal == 3

\* The userdata of the foreign heap: a1 and a2 hold the registered host type T, b1
\* another registered host type, raw no registered type.
Objects == {"a1", "a2", "b1", "raw"}
TypeOf == [o \in Objects |->
             IF o \in {"a1", "a2"} THEN "T" ELSE IF o = "b1" THEN "U" ELSE "none"]
Names == {"inc"}

\* UserDataType; NoType before a registry is constructed
NoType == [mode |-> "-", type_id |-> "-", ptr |-> "-"]
Shared(type_id) == [mode |-> "Shared", type_id |-> type_id, ptr |-> "-"]
Unique(ud_ptr) == [mode |-> "Unique", type_id |-> "-", ptr |-> ud_ptr]

\* Error values
Err(kind, cause) == [kind |-> kind, cause |-> cause]
NoError == Err("-", "-")
RecursiveMutCallback == Err("RecursiveMutCallback", "-")
bad_self_argument(cause) == Err("BadSelfArgument", cause)
ArgsError == Err("FromLuaConversionError", "argument")
UserError == Err("UserError", "-")

\* rawlua.get_userdata_type_id: the type the foreign object is registered with
get_userdata_type_id(self) ==
    IF TypeOf[self] = "none"
    THEN [ok |-> FALSE, err |-> "UserDataTypeMismatch", type_id |-> "-"]
    ELSE [ok |-> TRUE, err |-> "-", type_id |-> TypeOf[self]]

\* UserDataStorage::try_borrow_scoped, try_borrow_scoped_mut: the borrow state while
\* the scope runs
\* borrows that are granted whatever the borrow state
try_borrow_scoped_unchecked(n) == [ok |-> TRUE, err |-> "-", n |-> n + 1]
try_borrow_scoped_mut_unchecked(n) == [ok |-> TRUE, err |-> "-", n |-> -1]

try_borrow_scoped(n) ==
    IF n < 0 THEN [ok |-> FALSE, err |-> "UserDataBorrowError", n |-> n]
    ELSE [ok |-> TRUE, err |-> "-", n |-> n + 1]

try_borrow_scoped_mut(n) ==
    IF n # 0 THEN [ok |-> FALSE, err |-> "UserDataBorrowMutError", n |-> n]
    ELSE [ok |-> TRUE, err |-> "-", n |-> -1]

borrow_userdata_scoped(n, type_id, type_hints) ==
    IF type_id # type_hints THEN [ok |-> FALSE, err |-> "UserDataTypeMismatch", n |-> n]
    ELSE try_borrow_scoped(n)

borrow_userdata_scoped_mut(n, type_id, type_hints) ==
    IF type_id # type_hints THEN [ok |-> FALSE, err |-> "UserDataTypeMismatch", n |-> n]
    ELSE try_borrow_scoped_mut(n)

\* What a boxed closure does up to the call of the user closure: it fails with err,
\* or invokes the user closure with the borrows b and c held
Fails(err, b, c) == [invoke |-> FALSE, err |-> err, borrow |-> b, cells |-> c]
Invokes(b, c) == [invoke |-> TRUE, err |-> NoError, borrow |-> b, cells |-> c]

\* a scope that decodes the arguments before it looks at the borrow of self
Scoped_args_first(br, self, args_ok, b, c) ==
    IF ~args_ok THEN Fails(ArgsError, b, c)
    ELSE IF ~br.ok THEN Fails(bad_self_argument(br.err), b, c)
    ELSE Invokes([b EXCEPT ![self] = br.n], c)

\* the scope of a borrow br of self: args? and then the user method
Scoped(br, self, args_ok, b, c) ==
    IF ~br.ok THEN Fails(bad_self_argument(br.err), b, c)
    ELSE IF ~args_ok THEN Fails(ArgsError, b, c)
    ELSE Invokes([b EXCEPT ![self] = br.n], c)

\* box_method with the type lookup's error returned as it is
box_method_unwrapped(key, target_type, nargs, self, args_ok, b, c) ==
    IF nargs = 0 THEN Fails(bad_self_argument("missing argument"), b, c)
    ELSE IF target_type.mode = "Shared"
    THEN LET type_id == get_userdata_type_id(self)
         IN  IF ~type_id.ok THEN Fails(Err(type_id.err, "-"), b, c)
             ELSE Scoped(borrow_userdata_scoped(b[self], type_id.type_id,
                                                target_type.type_id),
                         self, args_ok, b, c)
    ELSE IF self = target_type.ptr
    THEN Scoped(try_borrow_scoped(b[self]), self, args_ok, b, c)
    ELSE LET type_id == get_userdata_type_id(self)
         IN  IF ~type_id.ok THEN Fails(Err(type_id.err, "-"), b, c)
             ELSE Fails(bad_self_argument("UserDataTypeMismatch"), b, c)

\* box_method without the test of nargs
box_method_any_nargs(key, target_type, nargs, self, args_ok, b, c) ==
    IF target_type.mode = "Shared"
    THEN LET type_id == get_userdata_type_id(self)
         IN  IF ~type_id.ok THEN Fails(bad_self_argument(type_id.err), b, c)
             ELSE Scoped(borrow_userdata_scoped(b[self], type_id.type_id,
                                                target_type.type_id),
                         self, args_ok, b, c)
    ELSE IF self = target_type.ptr
    THEN Scoped(try_borrow_scoped(b[self]), self, args_ok, b, c)
    ELSE LET type_id == get_userdata_type_id(self)
         IN  IF ~type_id.ok THEN Fails(bad_self_argument(type_id.err), b, c)
             ELSE Fails(bad_self_argument("UserDataTypeMismatch"), b, c)

\* the closure box_method returns
box_method(key, target_type, nargs, self, args_ok, b, c) ==
    IF nargs = 0 THEN Fails(bad_self_argument("missing argument"), b, c)
    ELSE IF target_type.mode = "Shared"
    THEN LET type_id == get_userdata_type_id(self)
         IN  IF ~type_id.ok THEN Fails(bad_self_argument(type_id.err), b, c)
             ELSE Scoped(borrow_userdata_scoped(b[self], type_id.type_id,
                                                target_type.type_id),
                         self, args_ok, b, c)
    ELSE IF self = target_type.ptr
    THEN Scoped(try_borrow_scoped(b[self]), self, args_ok, b, c)
    ELSE LET type_id == get_userdata_type_id(self)
         IN  IF ~type_id.ok THEN Fails(bad_self_argument(type_id.err), b, c)
             ELSE Fails(bad_self_argument("UserDataTypeMismatch"), b, c)

\* box_method_mut taking any userdata of the unique object's type for it
box_method_mut_by_type(key, target_type, nargs, self, args_ok, b, c) ==
    IF key \in c THEN Fails(RecursiveMutCallback, b, c)
    ELSE IF nargs = 0 THEN Fails(bad_self_argument("missing argument"), b, c)
    ELSE IF target_type.mode = "Shared"
    THEN LET type_id == get_userdata_type_id(self)
         IN  IF ~type_id.ok THEN Fails(bad_self_argument(type_id.err), b, c)
             ELSE Scoped(borrow_userdata_scoped_mut(b[self], type_id.type_id,
                                                    target_type.type_id),
                         self, args_ok, b, c \cup {key})
    ELSE IF TypeOf[self] = TypeOf[target_type.ptr]
    THEN Scoped(try_borrow_scoped_mut(b[self]), self, args_ok, b, c \cup {key})
    ELSE LET type_id == get_userdata_type_id(self)
         IN  IF ~type_id.ok THEN Fails(bad_self_argument(type_id.err), b, c)
             ELSE Fails(bad_self_argument("UserDataTypeMismatch"), b, c)

\* box_method_mut without the RefCell around the user closure
box_method_mut_no_refcell(key, target_type, nargs, self, args_ok, b, c) ==
    IF nargs = 0 THEN Fails(bad_self_argument("missing argument"), b, c)
    ELSE IF target_type.mode = "Shared"
    THEN LET type_id == get_userdata_type_id(self)
         IN  IF ~type_id.ok THEN Fails(bad_self_argument(type_id.err), b, c)
             ELSE Scoped(borrow_userdata_scoped_mut(b[self], type_id.type_id,
                                                    target_type.type_id),
                         self, args_ok, b, c \cup {key})
    ELSE IF self = target_type.ptr
    THEN Scoped(try_borrow_scoped_mut(b[self]), self, args_ok, b, c \cup {key})
    ELSE LET type_id == get_userdata_type_id(self)
         IN  IF ~type_id.ok THEN Fails(bad_self_argument(type_id.err), b, c)
             ELSE Fails(bad_self_argument("UserDataTypeMismatch"), b, c)

\* the closure box_method_mut returns
box_method_mut(key, target_type, nargs, self, args_ok, b, c) ==
    IF key \in c THEN Fails(RecursiveMutCallback, b, c)
    ELSE IF nargs = 0 THEN Fails(bad_self_argument("missing argument"), b, c)
    ELSE IF target_type.mode = "Shared"
    THEN LET type_id == get_userdata_type_id(self)
         IN  IF ~type_id.ok THEN Fails(bad_self_argument(type_id.err), b, c)
             ELSE Scoped(borrow_userdata_scoped_mut(b[self], type_id.type_id,
                                                    target_type.type_id),
                         self, args_ok, b, c \cup {key})
    ELSE IF self = target_type.ptr
    THEN Scoped(try_borrow_scoped_mut(b[self]), self, args_ok, b, c \cup {key})
    ELSE LET type_id == get_userdata_type_id(self)
         IN  IF ~type_id.ok THEN Fails(bad_self_argument(type_id.err), b, c)
             ELSE Fails(bad_self_argument("UserDataTypeMismatch"), b, c)

\* the closure box_function_mut returns
box_function_mut(key, target_type, nargs, self, args_ok, b, c) ==
    IF key \in c THEN Fails(RecursiveMutCallback, b, c)
    ELSE IF ~args_ok THEN Fails(ArgsError, b, c)
    ELSE Invokes(b, c \cup {key})

\* A scope that fails gives its RefCell borrow back
Boxed(cb, key, nargs, self, args_ok, b, c) ==
    LET r == CASE cb.box = "method" ->
                    box_method(key, cb.target_type, nargs, self, args_ok, b, c)
               [] cb.box = "method_mut" ->
                    box_method_mut(key, cb.target_type, nargs, self, args_ok, b, c)
               [] cb.box = "function_mut" ->
                    box_function_mut(key, cb.target_type, nargs, self, args_ok, b, c)
    IN  IF r.invoke THEN r ELSE [r EXCEPT !.cells = c]

Callback(box, name) == [box |-> box, name |-> name, target_type |-> rtype]

EmptyRegistry ==
    [fields |-> <<>>, field_getters |-> <<>>, field_setters |-> <<>>,
     meta_fields |-> <<>>, methods |-> <<>>, meta_methods |-> <<>>]

\* UserDataRegistry::with_type
with_type(type) ==
    /\ rtype = NoType
    /\ rtype' = type
    /\ raw' = EmptyRegistry
    /\ UNCHANGED <<borrow, cells, val, calls, ret, seq, built>>
    /\ UNCHANGED tvars

\* UserDataRegistry::new, for the host type T
new == with_type(Shared("T"))

\* UserDataRegistry::new_unique
new_unique(ud_ptr) == with_type(Unique(ud_ptr))

NoBuilt == [op |-> "none", name |-> "-", value |-> Nil, before |-> EmptyRegistry,
            orig |-> EmptyRegistry]

Entries == Len(raw.fields) + Len(raw.field_getters) + Len(raw.field_setters)
           + Len(raw.meta_fields) + Len(raw.methods) + Len(raw.meta_methods)

Register(list, box, name) ==
    /\ rtype # NoType
    /\ Entries < MaxEntries
    /\ calls = <<>>
    /\ raw' = [raw EXCEPT ![list] = Append(@, Callback(box, name))]
    /\ ret' = [ret EXCEPT !.phase = "none"]
    /\ built' = NoBuilt
    /\ UNCHANGED <<rtype, borrow, cells, val, calls, seq>>
    /\ UNCHANGED tvars

add_method(name) == Register("methods", "method", name)
add_method_mut(name) == Register("methods", "method_mut", name)
add_function_mut(name) == Register("methods", "function_mut", name)

NoRet ==
    [phase |-> "none", key |-> 0, box |-> "-", nargs |-> 0, self |-> "-",
     args_ok |-> FALSE, reentrant |-> FALSE, same_self |-> FALSE,
     invoked |-> FALSE, changed |-> FALSE, err |-> NoError]

\* the self argument a closure of this registry accepts
RightSelf(self) ==
    IF rtype.mode = "Shared" THEN TypeOf[self] = rtype.type_id ELSE self = rtype.ptr

SeqDead == [live |-> FALSE, self |-> "-", rets |-> <<>>]

SeqOnCall(cb, nargs, self, args_ok) ==
    IF /\ seq.live
       /\ calls = <<>>
       /\ cb.box = "method_mut"
       /\ nargs = 1
       /\ args_ok
       /\ RightSelf(self)
       /\ seq.self \in {"-", self}
    THEN [seq EXCEPT !.self = self]
    ELSE SeqDead

\* the call counts when its closure incremented the object; an error is noted as -1
SeqOnReturn(f, err) ==
    IF seq.live /\ f.mutated
    THEN [seq EXCEPT !.rets = Append(@, IF err = NoError THEN val[f.self] ELSE -1)]
    ELSE SeqDead

\* the foreign runtime, or a running user closure, calls the boxed closure methods[key]
Call(key, nargs, self, args_ok) ==
    /\ Len(calls) < MaxCallDepth
    /\ key \in 1..Len(raw.methods)
    /\ LET cb == raw.methods[key]
           r  == Boxed(cb, key, nargs, self, args_ok, borrow, cells)
       IN  /\ borrow' = r.borrow
           /\ cells' = r.cells
           /\ calls' = IF r.invoke
                       THEN Append(calls, [key |-> key, box |-> cb.box, self |-> self,
                                           mutated |-> FALSE])
                       ELSE calls
           /\ ret' = [phase |-> "call", key |-> key, box |-> cb.box, nargs |-> nargs,
                      self |-> self, args_ok |-> args_ok,
                      reentrant |-> key \in cells,
                      same_self |-> \E i \in 1..Len(calls) :
                                       calls[i].key = key /\ calls[i].self = self,
                      invoked |-> calls' # calls,
                      changed |-> <<borrow', cells', calls'>> # <<borrow, cells, calls>>,
                      err |-> r.err]
           /\ seq' = SeqOnCall(cb, nargs, self, args_ok)
    /\ UNCHANGED <<rtype, raw, val, built>>
    /\ UNCHANGED tvars

\* the running user closure of an exclusive method changes its object
UserMutate ==
    /\ calls # <<>>
    /\ Top(calls).box = "method_mut"
    /\ ~Top(calls).mutated
    /\ val[Top(calls).self] < MaxVal
    /\ val' = [val EXCEPT ![Top(calls).self] = @ + 1]
    /\ calls' = [calls EXCEPT ![Len(calls)].mutated = TRUE]
    /\ ret' = [ret EXCEPT !.phase = "none"]
    /\ UNCHANGED <<rtype, raw, borrow, cells, seq, built>>
    /\ UNCHANGED tvars

\* a scope that keeps the borrow of self when it ends
EndScope_keeps(f, b) == b

\* the scope of the borrow of self ends with the user closure f
EndScope(f, b) ==
    IF f.box = "function_mut" THEN b
    ELSE [b EXCEPT ![f.self] = IF f.box = "method_mut" THEN 0 ELSE @ - 1]

\* the running user closure ends: the scopes of the borrows end with it
UserReturn(err) ==
    /\ calls # <<>>
    /\ LET f == Top(calls)
       IN  /\ borrow' = EndScope(f, borrow)
           /\ cells' = cells \ {f.key}
           /\ seq' = SeqOnReturn(f, err)
           /\ calls' = Front(calls)
           /\ ret' = [NoRet EXCEPT !.phase = "return", !.key = f.key, !.box = f.box,
                                   !.self = f.self, !.invoked = TRUE, !.err = err]
    /\ UNCHANGED <<rtype, raw, val, built>>
    /\ UNCHANGED tvars

----------------------------------------------------------------------------
(* Fields and meta-fields: UserDataFields for UserDataRegistry *)

\* Host values given as field values, and the foreign values they convert to
Host(type) == V(type, 0)
HostValues == {Host("unit"), Host("map"), Host("closure"), Host("i64"), Host("bad")}
Number == V("number", 0)
Table == V("table", 0)
Function == V("function", 0)
LuaValues == {Nil, Table, Function, Number}

MetaNames == {"__index", "__newindex", "__tostring"}

\* Result<Value>
Ok(value) == [ok |-> TRUE, value |-> value, err |-> NoError]
Failed(err) == [ok |-> FALSE, value |-> Nil, err |-> err]

ToLuaConversionError == Err("ToLuaConversionError", "-")
MetaMethodTypeError(method, type_name) ==
    [kind |-> "MetaMethodTypeError", method |-> method, type_name |-> type_name,
     message |-> "expected nil, table or function"]

\* IntoLua::into_lua: a foreign value converts to itself
into_lua(value) ==
    IF value \in LuaValues THEN Ok(value)
    ELSE CASE value = Host("unit") -> Ok(Nil)
           [] value = Host("map") -> Ok(Table)
           [] value = Host("closure") -> Ok(Function)
           [] value = Host("i64") -> Ok(Number)
           [] OTHER -> Failed(ToLuaConversionError)

\* r.and_then(|v| v.into_lua(lua))
and_then_into_lua(r) == IF r.ok THEN into_lua(r.value) ELSE r

\* check_meta_field that validates __index only
check_meta_field_index_only(name, value) ==
    LET v == into_lua(value)
    IN  IF ~v.ok THEN v
        ELSE IF name = "__index" /\ v.value \notin {Nil, Table, Function}
        THEN Failed(MetaMethodTypeError(name, v.value.t))
        ELSE into_lua(v.value)

check_meta_field(name, value) ==
    LET v == into_lua(value)
    IN  IF ~v.ok THEN v
        ELSE IF name \in {"__index", "__newindex"} /\ v.value \notin {Nil, Table, Function}
        THEN Failed(MetaMethodTypeError(name, v.value.t))
        ELSE into_lua(v.value)

Field(name, field) == [name |-> name, field |-> field]

\* vec.push(entry) on one list of a RawUserDataRegistry
Pushed(r, list, entry) == [r EXCEPT ![list] = Append(@, entry)]

\* an addition made by the builder while no closure runs
Build(op, name, value, r) ==
    /\ rtype # NoType
    /\ Entries < MaxEntries
    /\ calls = <<>>
    /\ raw' = r
    /\ built' = [op |-> op, name |-> name, value |-> value, before |-> raw,
                 orig |-> EmptyRegistry]
    /\ UNCHANGED <<rtype, borrow, cells, val, calls, ret, seq>>
    /\ UNCHANGED tvars

add_field(name, value) ==
    Build("add_field", name, value, Pushed(raw, "fields", Field(name, into_lua(value))))

add_meta_field(name, value) ==
    Build("add_meta_field", name, value,
          Pushed(raw, "meta_fields",
                 Field(name, and_then_into_lua(check_meta_field(name, value)))))

add_field_method_get(name) ==
    Build("add_field_method_get", name, Nil,
          Pushed(raw, "field_getters", Callback("method", name)))

add_field_method_set(name) ==
    Build("add_field_method_set", name, Nil,
          Pushed(raw, "field_setters", Callback("method_mut", name)))

add_meta_function_mut(name) ==
    Build("add_meta_function_mut", name, Nil,
          Pushed(raw, "meta_methods", Callback("function_mut", name)))

----------------------------------------------------------------------------
(* Wrapper types: lua_userdata_impl *)

\* A call T::register makes on the registry it is given
Op(op, name, value) == [op |-> op, name |-> name, value |-> value]

CallbackOf(type, box, name) == [box |-> box, name |-> name, target_type |-> type]

\* the registry r of the given type after the call op
Applied(r, type, op) ==
    CASE op.op = "add_field" ->
            Pushed(r, "fields", Field(op.name, into_lua(op.value)))
      [] op.op = "add_field_method_get" ->
            Pushed(r, "field_getters", CallbackOf(type, "method", op.name))
      [] op.op = "add_field_method_set" ->
            Pushed(r, "field_setters", CallbackOf(type, "method_mut", op.name))
      [] op.op = "add_meta_field" ->
            Pushed(r, "meta_fields",
                   Field(op.name, and_then_into_lua(check_meta_field(op.name, op.value))))
      [] op.op = "add_method" ->
            Pushed(r, "methods", CallbackOf(type, "method", op.name))
      [] op.op = "add_method_mut" ->
            Pushed(r, "methods", CallbackOf(type, "method_mut", op.name))
      [] op.op = "add_meta_function_mut" ->
            Pushed(r, "meta_methods", CallbackOf(type, "function_mut", op.name))

\* T::register(&mut orig_registry), T::register being the calls of prog in order
RECURSIVE T_register(_, _, _)
T_register(r, type, prog) ==
    IF prog = <<>> THEN r
    ELSE T_register(Applied(r, type, prog[1]), type, SubSeq(prog, 2, Len(prog)))

\* What T::register may be: nothing, two methods of one name, one entry of every
\* category, entries that hold errors
TPrograms ==
    { <<>>,
      <<Op("add_method", "inc", Nil), Op("add_method_mut", "inc", Nil)>>,
      <<Op("add_field", "f", Host("i64")), Op("add_field_method_get", "f", Nil),
        Op("add_field_method_set", "f", Nil), Op("add_meta_field", "__index", Host("map")),
        Op("add_method_mut", "inc", Nil), Op("add_meta_function_mut", "__call", Nil)>>,
      <<Op("add_meta_field", "__index", Host("i64")), Op("add_field", "f", Host("bad"))>> }

\* the copy with the methods and the meta-methods taken for one another
extend_all_crossed(r, orig) ==
    [fields |-> r.fields \o orig.fields,
     field_getters |-> r.field_getters \o orig.field_getters,
     field_setters |-> r.field_setters \o orig.field_setters,
     meta_fields |-> r.meta_fields \o orig.meta_fields,
     methods |-> r.methods \o orig.meta_methods,
     meta_methods |-> r.meta_methods \o orig.methods]

\* the six extend calls of the macro
extend_all(r, orig) ==
    [fields |-> r.fields \o orig.fields,
     field_getters |-> r.field_getters \o orig.field_getters,
     field_setters |-> r.field_setters \o orig.field_setters,
     meta_fields |-> r.meta_fields \o orig.meta_fields,
     methods |-> r.methods \o orig.methods,
     meta_methods |-> r.meta_methods \o orig.meta_methods]

\* <wrapper of T as UserData>::register(registry)
lua_userdata_impl(prog) ==
    /\ rtype # NoType
    /\ Entries <= MaxEntries
    /\ calls = <<>>
    /\ LET orig_registry == T_register(EmptyRegistry, Shared("T"), prog)
       IN  /\ raw' = extend_all(raw, orig_registry)
           /\ built' = [op |-> "register", name |-> "-", value |-> Nil, before |-> raw,
                        orig |-> orig_registry]
    /\ UNCHANGED <<rtype, borrow, cells, val, calls, ret, seq>>
    /\ UNCHANGED tvars

----------------------------------------------------------------------------
Init ==
    /\ \E c \in 1..MaxInitSize :
          /\ extra = [ref_thread |-> <<>>, ref_free |-> <<>>, ref_stack_size |-> c,
                      ref_stack_top |-> 0, wrapped_failure_pool |-> <<>>,
                      wrapped_failure_top |-> 0, yielded_values |-> <<>>]
          /\ allocs = [live |-> TRUE, idx |-> <<>>, cap0 |-> c, full |-> TRUE,
                       failed |-> FALSE]
    /\ cur_state = "main"
    /\ frames = <<>>
    /\ last = NoLast
    /\ run = RunDead
    /\ rtype = NoType
    /\ raw = EmptyRegistry
    /\ borrow = [o \in Objects |-> 0]
    /\ cells = {}
    /\ val = [o \in Objects |-> 0]
    /\ calls = <<>>
    /\ ret = NoRet
    /\ seq = [live |-> TRUE, self |-> "-", rets |-> <<>>]
    /\ built = NoBuilt

Next ==
    \/ \E a \in Avail(extra) : PopRef(a)
    \/ \E i \in 1..MaxStack : DropRef(i)
    \/ \E v \in YieldBuffers : SetYieldedValues(v)
    \/ \E t \in Threads, n \in NArgs : callback_error_ext_call(t, n)
    \/ \E t \in Threads, n \in NArgs : callback_error_ext_yieldable_call(t, n)
    \/ \E k \in NArgs, a \in Avail(extra) : callback_error_ext_ok(k, a)
    \/ \E w \in BOOLEAN, k \in NArgs, e \in Errors, room \in BOOLEAN :
          callback_error_ext_err(w, k, e, room)
    \/ \E k \in NArgs, p \in Payloads : callback_error_ext_panic(k, p)
    \/ \E k \in NArgs, a \in Avail(extra) : callback_error_ext_yieldable_ok(k, a)
    \/ \E w \in BOOLEAN, k \in NArgs, e \in Errors, room \in BOOLEAN :
          callback_error_ext_yieldable_err(w, k, e, room)
    \/ \E k \in NArgs, p \in Payloads : callback_error_ext_yieldable_panic(k, p)

Spec == Init /\ [][Next]_vars

\* The behaviours that follow the growth of the auxiliary stack: the runtime grants
\* up to MaxGrown slots, and no host closure buffers values to yield.
NextGrowth ==
    \/ \E a \in AvailGrown(extra) : PopRef(a)
    \/ \E i \in 1..MaxGrown : DropRef(i)
    \/ \E t \in Threads, n \in NArgs : callback_error_ext_call(t, n)
    \/ \E t \in Threads, n \in NArgs : callback_error_ext_yieldable_call(t, n)
    \/ \E k \in NArgs, a \in AvailGrown(extra) : callback_error_ext_ok(k, a)
    \/ \E w \in BOOLEAN, k \in NArgs, e \in Errors, room \in BOOLEAN :
          callback_error_ext_err(w, k, e, room)
    \/ \E k \in NArgs, p \in Payloads : callback_error_ext_panic(k, p)
    \/ \E k \in NArgs, a \in AvailGrown(extra) : callback_error_ext_yieldable_ok(k, a)
    \/ \E w \in BOOLEAN, k \in NArgs, e \in Errors, room \in BOOLEAN :
          callback_error_ext_yieldable_err(w, k, e, room)
    \/ \E k \in NArgs, p \in Payloads : callback_error_ext_yieldable_panic(k, p)

SpecGrowth == Init /\ [][NextGrowth]_vars

NextRegistry ==
    \/ new
    \/ new_unique("a1")
    \/ \E n \in Names : add_method(n)
    \/ \E n \in Names : add_method_mut(n)
    \/ \E n \in Names : add_function_mut(n)
    \/ \E key \in 1..MaxEntries, nargs \in NArgs, self \in Objects, ok \in BOOLEAN :
          Call(key, nargs, self, ok)
    \/ UserMutate
    \/ \E e \in {NoError, UserError} : UserReturn(e)

SpecRegistry == Init /\ [][NextRegistry]_vars

\* the builder of a registry: a registry is constructed and entries are added
NextBuilder ==
    \/ new
    \/ new_unique("a1")
    \/ \E v \in HostValues \cup LuaValues : add_field("f", v)
    \/ \E n \in MetaNames, v \in HostValues \cup LuaValues : add_meta_field(n, v)
    \/ \E n \in Names : add_method(n)
    \/ \E n \in Names : add_method_mut(n)
    \/ \E n \in Names : add_function_mut(n)
    \/ add_field_method_get("f")
    \/ add_field_method_set("f")
    \/ add_meta_function_mut("__call")
    \/ \E prog \in TPrograms : lua_userdata_impl(prog)

SpecBuilder == Init /\ [][NextBuilder]_vars

----------------------------------------------------------------------------
(* Claims about the trampoline, the capsule pool and the auxiliary stack *)

\* C1: every reservation made by a trampoline invocation is resolved exactly once:
\* whichever way the invocation ends, exactly one of use and release was called.
C1_ResolvedExactlyOnce ==
    last.exit # "none" => last.uses + last.releases = 1

\* C2: no invocation of a trampoline ends by a host panic unwinding out of it.
C2_NoPanicEscapes ==
    last.exit # "panic"

\* C3: when the host closure panics with payload p, the capsule raised holds
\* Panic(p), for both trampolines and both kinds of reservation.
C3_PanicPayloadKept ==
    last.outcome = "panic" =>
        /\ last.exit = "raise"
        /\ last.raised = WrappedPanic(last.val)

C3_Witness ==
    /\ last.outcome = "panic"
    /\ last.variant = "yieldable"
    /\ last.tok = "Reserved"
    /\ last.raised = WrappedPanic("p2")

\* C4: when the host closure returns the error e, the capsule raised holds a
\* CallbackError whose cause is e when wrap_error is set, and e itself when it is not.
C4_ErrorKept ==
    last.outcome = "err" =>
        /\ last.exit = "raise"
        /\ last.wrap => /\ last.raised.tag = "Error"
                        /\ last.raised.kind = "CallbackError"
                        /\ last.raised.val = last.val
        /\ ~last.wrap => last.raised = WrappedError(last.val)

C4_Witness ==
    /\ last.outcome = "err"
    /\ last.wrap
    /\ last.variant = "yieldable"
    /\ last.tok = "New"
    /\ last.raised = WrappedCallbackError(Traceback(TRUE), "e2")

\* between two cycles of a run of reserve/release cycles made one after another
BetweenCycles == run.live /\ run.n >= 1 /\ frames = <<>>

\* C8 as stated: after N reservations, each released before the next, from an
\* idle count of 0, the idle count is N.
C8_IdleCountIsN ==
    (BetweenCycles /\ run.idle0 = 0) => extra.wrapped_failure_top = run.n

\* C8 as amended: after N >= 1 reservations, each released before the next, from an
\* idle count of 0, the idle count is 1 once a release has returned, and still 0
\* when every release panicked in ref_stack_pop.
C8_IdleCountIsOne ==
    (BetweenCycles /\ run.idle0 = 0) =>
        extra.wrapped_failure_top = (IF run.parked THEN 1 ELSE 0)

C8_Witness ==
    /\ BetweenCycles
    /\ run.idle0 = 0
    /\ run.n >= 2
    /\ run.parked
    /\ extra.wrapped_failure_top = 1

\* C9 as stated: after reservations each released before the next, as many
\* auxiliary slots are in use as before them.
C9_NoSlotTaken ==
    BetweenCycles => SlotsInUse(extra) = run.used0

\* C9 as amended: after reservations each released before the next, as many
\* auxiliary slots are in use as before them when the idle count was positive at the
\* start, and one more (the capsule parked by the first release that returned) when
\* it was 0; none more when every release panicked in ref_stack_pop.
C9_OneSlotAtMost ==
    BetweenCycles =>
        SlotsInUse(extra) = run.used0 + (IF run.idle0 = 0 /\ run.parked THEN 1 ELSE 0)

C9_Witness ==
    /\ BetweenCycles
    /\ run.n >= 2
    /\ run.idle0 = 0
    /\ run.used0 > 0
    /\ run.parked
    /\ SlotsInUse(extra) = run.used0 + 1

Distinct(s) == \A i, j \in 1..Len(s) : i # j => s[i] # s[j]

C11_TopWithinCapacity ==
    extra.ref_stack_top <= extra.ref_stack_size

\* the stack is full after a growth by a halved increment (from 2 slots to 3)
C11_Witness ==
    /\ extra.ref_stack_size = 3
    /\ extra.ref_stack_top = 3
    /\ extra.ref_free = <<>>

\* the context the handle calls current when no trampoline is running
OuterContext == "main"

\* C12: the state guard restores the handle's current context on every exit path:
\* while a host closure runs the current context is that of the innermost
\* invocation, every invocation remembers the context of the one around it, and
\* when an invocation has ended the current context is again the one it found.
C12_ContextRestored ==
    /\ cur_state = (IF frames = <<>> THEN OuterContext ELSE Top(frames).state)
    /\ \A i \in 1..Len(frames) :
          frames[i].saved = (IF i = 1 THEN OuterContext ELSE frames[i - 1].state)
    /\ last.exit # "none" => cur_state = last.saved

\* an inner invocation on another context has ended by a panic of its closure
C12_Witness ==
    /\ Len(frames) = 1
    /\ frames[1].state = "co"
    /\ last.exit = "raise"
    /\ last.outcome = "panic"
    /\ last.state = "main"
    /\ last.saved = "co"
    /\ cur_state = "co"

\* C16: when the host closure returns the error e in wrapped mode and the foreign
\* stack cannot be grown for the traceback, the trampoline still raises a
\* CallbackError whose cause is e and whose traceback is the placeholder string.
C16_PlaceholderTraceback ==
    (last.outcome = "err" /\ last.wrap /\ ~last.room) =>
        /\ last.exit = "raise"
        /\ last.raised = WrappedCallbackError(NoTracebackSpace, last.val)

C16_Witness ==
    /\ last.outcome = "err"
    /\ last.wrap
    /\ ~last.room
    /\ last.variant = "ext"
    /\ last.tok = "Reserved"
    /\ last.raised = WrappedCallbackError("<not enough stack space for traceback>", "e1")

\* C19: use on a Reserved token takes exactly one index off the capsule pool list,
\* leaves the capsule that index held as the only value of the frame, sets the slot
\* to nil, puts the index on the ref free-list and leaves the idle count as it was.
C19_UseOfReserved ==
    (last.exit = "raise" /\ last.tok = "Reserved") =>
        /\ last.pre.pool # <<>>
        /\ LET index == Top(last.pre.pool)
           IN  /\ extra.wrapped_failure_pool = Front(last.pre.pool)
               /\ last.pre.slot.t = "cap"
               /\ last.stack = <<last.pre.slot>>
               /\ extra.ref_thread[index] = Nil
               /\ extra.ref_free = Append(last.pre.free, index)
               /\ extra.wrapped_failure_top = last.pre.top

\* the pool held two parked capsules and the free-list an index already
C19_Witness ==
    /\ last.exit = "raise"
    /\ last.tok = "Reserved"
    /\ Len(last.pre.pool) = 2
    /\ Len(extra.ref_free) = 1
    /\ last.stack = <<last.pre.slot>>

\* C20: when the yieldable trampoline yields k > 0 buffered values, the calling
\* context's stack holds exactly those values, in their order, when the yield is
\* issued, whether or not the calling context is the handle's current context.
C20_YieldCarriesValues ==
    last.exit = "yield" =>
        /\ last.nyield = Len(last.yielded)
        /\ last.stack = last.yielded

\* the increments ref_stack_pop asks lua_checkstack for, from n halved down to 1
RECURSIVE Halvings(_)
Halvings(n) == IF n <= 0 THEN {} ELSE {n} \cup Halvings(n \div 2)

\* the first of them the runtime grants, 0 when it grants none
Granted(n, avail) ==
    LET ok == {h \in Halvings(n) : h <= avail}
    IN  IF ok = {} THEN 0 ELSE CHOOSE h \in ok : \A g \in ok : g <= h

\* C21: when ref_stack_pop has to grow the stack and every increment is refused, it
\* pops the transient entry from the auxiliary context and panics reporting
\* ref_stack_top slots used, leaving ref_stack_top, ref_stack_size and the free-list
\* as they were; when an increment inc >= 1 is granted, the capacity grows by
\* exactly inc and the new top index is returned.
C21_GrowthOrFatal ==
    last.pop.tried =>
        LET inc == Granted(last.pop.size, last.pop.avail)
        IN  IF inc = 0
            THEN /\ last.pop.panic
                 /\ last.pop.used = last.pop.top
                 /\ extra.ref_thread = Front(last.pop.thread)
                 /\ extra.ref_stack_top = last.pop.top
                 /\ extra.ref_stack_size = last.pop.size
                 /\ extra.ref_free = <<>>
            ELSE /\ ~last.pop.panic
                 /\ extra.ref_stack_size = last.pop.size + inc
                 /\ last.pop.index = last.pop.top + 1
                 /\ extra.ref_stack_top = last.pop.index

\* every increment was refused with the stack grown as far as the runtime allows
C21_Witness ==
    /\ last.pop.tried
    /\ last.pop.panic
    /\ last.pop.avail = 0
    /\ last.pop.size > 1
    /\ last.pop.used = last.pop.size
    /\ extra.ref_thread = Front(last.pop.thread)

\* the invocations in progress that hold a Reserved token
Unresolved == {i \in 1..Len(frames) : frames[i].tok = "Reserved"}

\* C22: under any nesting of invocations, the idle count plus the number of
\* unresolved Reserved tokens is at most the length of the capsule pool list, and
\* use on a Reserved token never finds the list empty.
C22_PoolCoversReserved ==
    /\ extra.wrapped_failure_top + Cardinality(Unresolved)
          <= Len(extra.wrapped_failure_pool)
    /\ (last.tok = "Reserved" /\ last.uses = 1) =>
          (last.exit = "raise" /\ last.pre.pool # <<>>)

\* an inner invocation has used a Reserved token while the outer one holds another
C22_Witness ==
    /\ Len(frames) = 1
    /\ frames[1].tok = "Reserved"
    /\ last.tok = "Reserved"
    /\ last.uses = 1
    /\ last.exit = "raise"
    /\ Len(last.pre.pool) = 2

\* C25: when an invocation of a trampoline has finished by a return, a yield or a
\* raise of an error or of a panic, the buffer of yielded values is empty.
C25_BufferEmptyAtExit ==
    last.exit \in {"return", "yield", "raise"} => extra.yielded_values = <<>>

\* the capsules that invocations in progress hold on their frames
HeldCaps == {frames[i].ud : i \in {j \in 1..Len(frames) : frames[j].tok = "New"}}

\* C23: the ref free-list and the capsule pool list hold no index twice, share no
\* index and hold only indices in 1..ref_stack_top; a slot on the free-list holds
\* nil, so ref_stack_pop never gives out a slot that holds a live value or a parked
\* capsule, and a slot in the pool list holds a capsule that no invocation in
\* progress holds and that no other slot of the list holds.
C23_ListsSound ==
    LET free == extra.ref_free
        pool == extra.wrapped_failure_pool
    IN  /\ Distinct(free)
        /\ Distinct(pool)
        /\ Range(free) \cap Range(pool) = {}
        /\ Range(free) \cup Range(pool) \subseteq 1..extra.ref_stack_top
        /\ \A i \in Range(free) : extra.ref_thread[i] = Nil
        /\ \A i \in Range(pool) :
              /\ extra.ref_thread[i].t = "cap"
              /\ extra.ref_thread[i].id \notin HeldCaps
              /\ \A j \in Range(pool) : j # i => extra.ref_thread[j] # extra.ref_thread[i]

\* a freed slot and a parked capsule, while an invocation holds a capsule of its own
C23_Witness ==
    /\ Len(extra.ref_free) = 1
    /\ Len(extra.wrapped_failure_pool) = 1
    /\ HeldCaps # {}

----------------------------------------------------------------------------
(* Claims about the method closures *)

\* a call of a method or mut-method closure with a self argument
MethodCall ==
    /\ ret.phase = "call"
    /\ ret.box \in {"method", "method_mut"}
    /\ ret.nargs > 0

WrongType == rtype.mode = "Shared" /\ TypeOf[ret.self] # rtype.type_id
WrongAddress == rtype.mode = "Unique" /\ ret.self # rtype.ptr

\* C5 as stated: in shared-type mode a call whose self is unregistered or of another
\* host type returns a bad-self-argument error and does not invoke the user closure.
C5_WrongTypeIsBadSelf ==
    (MethodCall /\ WrongType) =>
        ret.err.kind = "BadSelfArgument" /\ ~ret.invoked

\* C5 as amended: such a call does not invoke the user closure, and returns a
\* bad-self-argument error, unless the closure is a mut-method closure that is
\* already running, and then it returns RecursiveMutCallback.
C5_WrongTypeRejected ==
    (MethodCall /\ WrongType) =>
        /\ ~ret.invoked
        /\ ret.err = IF ret.reentrant THEN RecursiveMutCallback
                     ELSE bad_self_argument("UserDataTypeMismatch")

C5_Witness ==
    /\ MethodCall
    /\ WrongType
    /\ TypeOf[ret.self] = "U"
    /\ ret.box = "method_mut"
    /\ ret.err = bad_self_argument("UserDataTypeMismatch")

\* C6 as stated: in unique-object mode a call whose self is not the registered
\* object always returns a bad-self-argument error, invokes no user closure and
\* borrows nothing.
C6_WrongAddressIsBadSelf ==
    (MethodCall /\ WrongAddress) =>
        ret.err.kind = "BadSelfArgument" /\ ~ret.invoked /\ ~ret.changed

\* C6 as amended: such a call invokes no user closure and borrows nothing, and
\* returns a bad-self-argument error, unless the closure is a mut-method closure
\* that is already running, and then it returns RecursiveMutCallback.
C6_WrongAddressRejected ==
    (MethodCall /\ WrongAddress) =>
        /\ ~ret.invoked
        /\ ~ret.changed
        /\ ret.err = IF ret.reentrant THEN RecursiveMutCallback
                     ELSE bad_self_argument("UserDataTypeMismatch")

C6_Witness ==
    /\ MethodCall
    /\ WrongAddress
    /\ ret.self = "a2"
    /\ ret.box = "method"
    /\ ret.err = bad_self_argument("UserDataTypeMismatch")

\* the borrows held are those of the user closures that are running
BorrowsAreOfRunningCalls ==
    /\ cells = {calls[i].key : i \in {j \in 1..Len(calls) : calls[j].box # "method"}}
    /\ \A o \in Objects :
          borrow[o] # 0 <=>
              \E i \in 1..Len(calls) : calls[i].box # "function_mut" /\ calls[i].self = o
    /\ \A o \in Objects :
          borrow[o] = -1 <=>
              \E i \in 1..Len(calls) : calls[i].box = "method_mut" /\ calls[i].self = o

\* C7: a call of a mut-method closure on an object on which that closure is already
\* running returns RecursiveMutCallback without invoking the user closure again and
\* without touching any borrow, so that the outer call still holds its borrows and
\* gives them back when it ends.
C7_RecursiveMutRejected ==
    /\ (ret.phase = "call" /\ ret.box = "method_mut" /\ ret.same_self) =>
          /\ ret.err = RecursiveMutCallback
          /\ ~ret.invoked
          /\ ~ret.changed
    /\ BorrowsAreOfRunningCalls

C7_Witness ==
    /\ ret.phase = "call"
    /\ ret.box = "method_mut"
    /\ ret.same_self
    /\ ret.err = RecursiveMutCallback
    /\ Len(calls) = 1
    /\ Top(calls).mutated

\* C13: calls of an exclusive method made one after another on one object all
\* succeed, and the k-th returns k: when a call has ended, by success or by error,
\* the borrow of the object and the borrow of the closure are given back.
C13_SequentialCallsSucceed ==
    /\ calls = <<>> => (cells = {} /\ \A o \in Objects : borrow[o] = 0)
    /\ seq.live =>
          /\ ret.phase = "call" => (ret.invoked /\ ret.err = NoError)
          /\ \A k \in 1..Len(seq.rets) : seq.rets[k] \in {k, -1}

C13_Witness ==
    /\ seq.live
    /\ seq.self = "a1"
    /\ seq.rets = <<1, 2, 3>>

\* the user closures that were running when the most recent call was made
Outer == IF ret.invoked THEN Front(calls) ELSE calls

\* the most recent call was of a method closure on an object that a running call
\* holds borrowed in a way that excludes the borrow it needs
Conflict ==
    /\ ret.phase = "call"
    /\ ret.box \in {"method", "method_mut"}
    /\ ret.nargs = 1
    /\ \E i \in 1..Len(Outer) :
          /\ Outer[i].self = ret.self
          /\ Outer[i].box # "function_mut"
          /\ Outer[i].box = "method_mut" \/ ret.box = "method_mut"

BorrowError ==
    IF ret.box = "method_mut" THEN "UserDataBorrowMutError" ELSE "UserDataBorrowError"

\* C14 as stated: a method closure that meets a borrow conflict returns the bad self
\* argument error wrapping the borrow error, invokes nothing and changes no borrow.
C14_ConflictIsBadSelf ==
    Conflict =>
        /\ ret.err = bad_self_argument(BorrowError)
        /\ ~ret.invoked
        /\ ~ret.changed

\* C14 as amended: a method closure that meets a borrow conflict returns an error
\* value, invokes nothing and changes no borrow; the error is the bad self argument
\* error wrapping the borrow error, unless the closure is a mut-method closure that
\* is itself still running, which returns RecursiveMutCallback.
C14_ConflictIsRecoverable ==
    Conflict =>
        /\ ret.err = (IF ret.reentrant THEN RecursiveMutCallback
                      ELSE bad_self_argument(BorrowError))
        /\ ~ret.invoked
        /\ ~ret.changed
        /\ borrow[ret.self] # 0

C14_Witness ==
    /\ Conflict
    /\ ~ret.reentrant
    /\ ret.box = "method_mut"
    /\ ret.err = bad_self_argument("UserDataBorrowMutError")
    /\ borrow[ret.self] = 1

\* the most recent call was of a method closure with no argument at all; self and
\* args_ok are then what an inspection of the stack would have found
NoArgs ==
    /\ ret.phase = "call"
    /\ ret.box \in {"method", "method_mut"}
    /\ ret.nargs = 0

\* C15 as stated: a method closure called with zero arguments returns the missing
\* self error at once, in both modes: nothing is decoded, borrowed or invoked.
C15_NoArgsIsMissingSelf ==
    NoArgs =>
        /\ ret.err = bad_self_argument("missing argument")
        /\ ~ret.invoked
        /\ ~ret.changed

\* C15 as amended: a method closure called with zero arguments decodes, borrows and
\* invokes nothing, in both modes; it returns the missing self error, unless it is
\* a mut-method closure that is itself still running, which returns
\* RecursiveMutCallback.
C15_NoArgsRejected ==
    NoArgs =>
        /\ ret.err = (IF ret.reentrant THEN RecursiveMutCallback
                      ELSE bad_self_argument("missing argument"))
        /\ ~ret.invoked
        /\ ~ret.changed

\* the stack, had it been inspected, held an object the closure accepts
C15_Witness ==
    /\ NoArgs
    /\ rtype.mode = "Unique"
    /\ ret.box = "method_mut"
    /\ ~ret.reentrant
    /\ RightSelf(ret.self)
    /\ ret.args_ok
    /\ ret.err = bad_self_argument("missing argument")

\* the most recent call was of a method closure
AnyMethodCall ==
    /\ ret.phase = "call"
    /\ ret.box \in {"method", "method_mut"}

\* the self argument of the most recent call was missing, not an object the closure
\* accepts, or an object that a running call holds borrowed in a way that excludes
\* the borrow the closure needs
InvalidSelf ==
    \/ ret.nargs = 0
    \/ ~RightSelf(ret.self)
    \/ \E i \in 1..Len(Outer) :
          /\ Outer[i].self = ret.self
          /\ Outer[i].box # "function_mut"
          /\ Outer[i].box = "method_mut" \/ ret.box = "method_mut"

\* C24 as stated: a method closure called with an invalid self and with arguments
\* that fail to decode returns the bad self argument error; the argument conversion
\* error is returned only when self was valid, and then the user closure is not
\* invoked and no borrow is kept.
C24_SelfErrorFirst ==
    AnyMethodCall =>
        /\ (InvalidSelf /\ ~ret.args_ok) => ret.err.kind = "BadSelfArgument"
        /\ ret.err = ArgsError =>
              ~InvalidSelf /\ ~ret.args_ok /\ ~ret.invoked /\ ~ret.changed

\* C24 as amended: such a call never returns the argument conversion error, invokes
\* nothing and keeps no borrow; it returns the bad self argument error, unless the
\* closure is a mut-method closure that is itself still running, which returns
\* RecursiveMutCallback. The argument conversion error is returned only when self
\* was valid, and then the user closure is not invoked and no borrow is kept.
C24_SelfCheckedBeforeArgs ==
    AnyMethodCall =>
        /\ (InvalidSelf /\ ~ret.args_ok) =>
              /\ IF ret.reentrant THEN ret.err = RecursiveMutCallback
                  ELSE ret.err.kind = "BadSelfArgument"
              /\ ~ret.invoked
              /\ ~ret.changed
        /\ ret.err = ArgsError =>
              ~InvalidSelf /\ ~ret.args_ok /\ ~ret.invoked /\ ~ret.changed

\* arguments that fail to decode, with a self that a running exclusive method of
\* another closure holds borrowed
C24_Witness ==
    /\ AnyMethodCall
    /\ ~ret.args_ok
    /\ ~ret.reentrant
    /\ ret.nargs = 1
    /\ RightSelf(ret.self)
    /\ InvalidSelf
    /\ ret.err = bad_self_argument(BorrowError)

\* arguments that fail to decode, with a self that was valid and free
C24_ArgsWitness ==
    /\ AnyMethodCall
    /\ ret.err = ArgsError
    /\ borrow[ret.self] = 0

----------------------------------------------------------------------------
(* Claims about the builder of a registry *)

\* the lists other than the given one are as they were before the addition
OthersUnchanged(list) ==
    \A l \in DOMAIN raw : l # list => raw[l] = built.before[l]

\* C17: add_meta_field appends exactly one entry to meta_fields; for a value that
\* converts to a foreign value, the entry holds MetaMethodTypeError when the name is
\* __index or __newindex and the value is not nil, a table or a function, and holds
\* the value itself otherwise.
C17_MetaFieldValidated ==
    built.op = "add_meta_field" =>
        /\ Len(raw.meta_fields) = Len(built.before.meta_fields) + 1
        /\ Front(raw.meta_fields) = built.before.meta_fields
        /\ OthersUnchanged("meta_fields")
        /\ Top(raw.meta_fields).name = built.name
        /\ into_lua(built.value).ok =>
              LET v == into_lua(built.value).value
                  e == Top(raw.meta_fields).field
              IN  IF built.name \in {"__index", "__newindex"}
                     /\ v # Nil /\ v.t # "table" /\ v.t # "function"
                  THEN ~e.ok /\ e.err = MetaMethodTypeError(built.name, v.t)
                  ELSE e.ok /\ e.value = v

\* a number given for __newindex is refused, after an entry that was accepted
C17_Witness ==
    /\ built.op = "add_meta_field"
    /\ built.name = "__newindex"
    /\ built.value = Host("i64")
    /\ Len(raw.meta_fields) = 2
    /\ raw.meta_fields[1].field.ok
    /\ ~raw.meta_fields[2].field.ok
    /\ raw.meta_fields[2].field.err.kind = "MetaMethodTypeError"

\* C18: after a wrapper type has registered, every list of its registry is what it
\* was before followed by the entries T::register produced for that list, in
\* their order.
C18_CopiedVerbatim ==
    built.op = "register" =>
        \A l \in DOMAIN raw : raw[l] = built.before[l] \o built.orig[l]

\* the wrapper had entries of its own and T::register produced one of every category
C18_Witness ==
    /\ built.op = "register"
    /\ Len(built.before.methods) = 1
    /\ Len(built.before.meta_methods) = 1
    /\ \A l \in DOMAIN raw : Len(built.orig[l]) = 1
    /\ Len(raw.methods) = 2
    /\ raw.methods[2].box = "method_mut"
    /\ raw.meta_methods[2].box = "function_mut"

====
